---- MODULE Spec2Model ----
(***************************************************************************)
(* The diligence pipeline of src/main.py: process_company_research drives  *)
(* the record store around research_company, analyze_web3_company and      *)
(* generate_report and mails the report.  Every external call (record      *)
(* store, website fetch, model completion, rendering, SMTP) is an await    *)
(* point and one step of the model; its outcome is chosen by the           *)
(* environment.                                                            *)
(*                                                                         *)
(* Python values are tagged records [kind, v]: a str is a sequence of text *)
(* segments, a list a sequence of values, a dict a function from keys to   *)
(* values.  A completion's content is represented by what json.loads makes *)
(* of it when it is a JSON document and by its characters otherwise.       *)
(***************************************************************************)
EXTENDS Integers, Sequences, FiniteSets, TLC

VARIABLES active, run, store, probe

vars == <<active, run, store, probe>>

----------------------------------------------------------------------------
(* Python values *)

Str(t) == [kind |-> "str", v |-> t]

Num(t) == [kind |-> "num", v |-> <<t>>]

Null == [kind |-> "null", v |-> <<>>]

List(s) == [kind |-> "list", v |-> s]

Dict(f) == [kind |-> "dict", v |-> f]

EmptyDict == Dict([k \in {} |-> Null])

IsDict(x) == x.kind = "dict"

IsStr(x) == x.kind = "str"

IsText(x, t) == x.kind = "str" /\ x.v = t

HasKey(d, k) == IsDict(d) /\ k \in DOMAIN d.v

\* dict.get(k, default)
Get(d, k, default) == IF k \in DOMAIN d.v THEN d.v[k] ELSE default

\* d[k] = x
Put(d, k, x) == Dict([j \in DOMAIN d.v \cup {k} |-> IF j = k THEN x ELSE d.v[j]])

\* dict.update(e) accepts a mapping or an iterable of 2-item sequences
CanUpdate(e) ==
    \/ e.kind = "dict"
    \/ e.kind = "str" /\ e.v = <<>>
    \/ e.kind = "list" /\ \A i \in 1..Len(e.v) :
            /\ e.v[i].kind \in {"list", "str"}
            /\ Len(e.v[i].v) = 2
            /\ e.v[i].kind = "list" => (e.v[i].v[1].kind = "str" /\ Len(e.v[i].v[1].v) = 1)

PairKey(p) == IF p.kind = "list" THEN p.v[1].v[1] ELSE p.v[1]

PairVal(p) == IF p.kind = "list" THEN p.v[2] ELSE Str(<<p.v[2]>>)

\* the mapping dict.update(e) merges in
AsMapping(e) ==
    IF e.kind = "dict" THEN e.v
    ELSE IF e.kind = "list"
         THEN [k \in {PairKey(e.v[i]) : i \in 1..Len(e.v)} |->
                 LET last == CHOOSE i \in 1..Len(e.v) :
                                 /\ PairKey(e.v[i]) = k
                                 /\ \A j \in 1..Len(e.v) : PairKey(e.v[j]) = k => j <= i
                 IN  PairVal(e.v[last])]
         ELSE [k \in {} |-> Null]

Update(d, e) ==
    LET m == AsMapping(e)
    IN  Dict([j \in DOMAIN d.v \cup DOMAIN m |-> IF j \in DOMAIN m THEN m[j] ELSE d.v[j]])

\* str.replace(' ', '_')
ReplaceSpaces(t) == [i \in 1..Len(t) |-> IF t[i] = " " THEN "_" ELSE t[i]]

StartsWith(t, p) == Len(t) >= Len(p) /\ SubSeq(t, 1, Len(p)) = p

----------------------------------------------------------------------------
(* Model completions: openai_client.chat.completions.create *)

Fail == [status |-> "error", isjson |-> FALSE, val |-> Null, chars |-> <<>>]

Raw(cs) == [status |-> "ok", isjson |-> FALSE, val |-> Null, chars |-> cs]

Json(x) == [status |-> "ok", isjson |-> TRUE, val |-> x, chars |-> <<>>]

\* str(e) of the exception a failed completion raises
ConnectionError == <<"Connection error.">>

\* str(e) of json.JSONDecodeError
DecodeError == <<"Expecting value: line 1 column 1 (char 0)">>

\* json.loads(response.choices[0].message.content)
json_loads(reply) == [ok |-> reply.isjson, val |-> reply.val]

----------------------------------------------------------------------------
(* CompanyData: the trigger's payload, fixed for the run *)

CompanyName(id) == IF id = "X1" THEN <<"A", "c", " ", "m", "e">> ELSE <<"B", "e", "t", "a">>

Website(id) == <<"http://", id, ".invalid">>

Company(id) ==
    [company_name |-> CompanyName(id), website |-> Website(id), external_id |-> id,
     industry |-> <<"Infra">>, one_liner |-> <<>>, description |-> <<>>]

----------------------------------------------------------------------------
(* ResearchAgent *)

\* research_results as research_company builds it before the first sub-call
research_results(company) ==
    Dict(("company_name" :> Str(company.company_name)) @@ ("website" :> Str(company.website))
         @@ ("basic_info" :> EmptyDict) @@ ("team_info" :> EmptyDict)
         @@ ("product_info" :> EmptyDict) @@ ("market_info" :> EmptyDict)
         @@ ("financial_info" :> EmptyDict) @@ ("news_mentions" :> List(<<>>))
         @@ ("social_presence" :> EmptyDict))

FetchOutcomes == {"ok", "error"}

_scrape_website(url, fetch) ==
    IF fetch = "ok"
    THEN Dict(("title" :> Str(<<"Home">>)) @@ ("description" :> Str(<<>>))
              @@ ("about" :> Str(<<"We build things.">>)) @@ ("url" :> Str(url)))
    ELSE Dict(("error" :> Str(<<"Max retries exceeded">>)) @@ ("url" :> Str(url)))

\* the common shape of _web_search and _research_team
structured_completion(reply) ==
    IF reply.status = "error" THEN Dict("error" :> Str(ConnectionError))
    ELSE IF json_loads(reply).ok THEN json_loads(reply).val
    ELSE Dict("summary" :> Str(reply.chars))

_web_search(reply) == structured_completion(reply)

_research_team(reply) == structured_completion(reply)

\* research_company after _web_search: the two .get calls need a dict
SearchRaises(search_data) == ~IsDict(search_data)

AfterScrape(results, website_data) == Put(results, "basic_info", website_data)

AfterSearch(results, search_data) ==
    Put(Put(results, "news_mentions", Get(search_data, "news", List(<<>>))),
        "market_info", Get(search_data, "market", EmptyDict))

AfterTeam(results, team_data) == Put(results, "team_info", team_data)

SearchReplyNames == {"error", "text", "object", "empty_object", "array"}

SearchReply(n) ==
    CASE n = "error" -> Fail
      [] n = "text" -> Raw(<<"n", "o", " ", "n", "e", "w", "s">>)
      [] n = "object" ->
            Json(Dict(("news" :> List(<<Str(<<"Series A announced">>)>>))
                      @@ ("market" :> Dict("position" :> Str(<<"challenger">>)))
                      @@ ("funding" :> Str(<<"seed">>))))
      [] n = "empty_object" -> Json(EmptyDict)
      [] n = "array" -> Json(List(<<Str(<<"Series A announced">>)>>))

TeamReplyNames == {"error", "text", "object", "array"}

TeamReply(n) ==
    CASE n = "error" -> Fail
      [] n = "text" -> Raw(<<"t", "w", "o">>)
      [] n = "object" -> Json(Dict("founders" :> List(<<Str(<<"Ada">>)>>)))
      [] n = "array" -> Json(List(<<Str(<<"Ada">>)>>))

----------------------------------------------------------------------------
(* Web3Agent *)

UpperChars ==
    <<"A", "B", "C", "D", "E", "F", "G", "H", "I", "J", "K", "L", "M",
      "N", "O", "P", "Q", "R", "S", "T", "U", "V", "W", "X", "Y", "Z">>

LowerChars ==
    <<"a", "b", "c", "d", "e", "f", "g", "h", "i", "j", "k", "l", "m",
      "n", "o", "p", "q", "r", "s", "t", "u", "v", "w", "x", "y", "z">>

LowerChar(c) ==
    IF \E i \in 1..Len(UpperChars) : UpperChars[i] = c
    THEN LowerChars[CHOOSE i \in 1..Len(UpperChars) : UpperChars[i] = c]
    ELSE c

\* str.lower()
Lower(t) == [i \in 1..Len(t) |-> LowerChar(t[i])]

\* p in t
Contains(t, p) == \E i \in 0..(Len(t) - Len(p)) : SubSeq(t, i + 1, i + Len(p)) = p

Categories ==
    << <<"D", "e", "F", "i">>, <<"N", "F", "T">>, <<"D", "A", "O">>,
       <<"I", "n", "f", "r", "a", "s", "t", "r", "u", "c", "t", "u", "r", "e">>,
       <<"G", "a", "m", "e", "F", "i">>, <<"S", "o", "c", "i", "a", "l">>,
       <<"T", "r", "a", "d", "i", "n", "g">> >>

Other == <<"O", "t", "h", "e", "r">>

_extract_category(analysis_text) ==
    LET hits == {i \in 1..Len(Categories) : Contains(Lower(analysis_text), Lower(Categories[i]))}
    IN  IF hits = {} THEN Other
        ELSE Categories[CHOOSE i \in hits : \A j \in hits : i <= j]

Go == <<"Go">>

NoGo == <<"No-Go">>

Monitor == <<"Monitor">>

\* the keyword scan with the No-Go keywords tested first
_extract_recommendation_nogo_first(analysis_text) ==
    LET text_lower == Lower(analysis_text)
    IN  IF \/ Contains(text_lower, <<"a", "v", "o", "i", "d">>)
           \/ Contains(text_lower, <<"p", "a", "s", "s">>)
           \/ Contains(text_lower, <<"h", "i", "g", "h", " ", "r", "i", "s", "k">>)
        THEN NoGo
        ELSE IF \/ Contains(text_lower, <<"s", "t", "r", "o", "n", "g", " ", "b", "u", "y">>)
                \/ Contains(text_lower, <<"h", "i", "g", "h", "l", "y", " ", "r", "e", "c", "o", "m", "m", "e", "n", "d">>)
        THEN Go
        ELSE Monitor

_extract_recommendation(analysis_text) ==
    LET text_lower == Lower(analysis_text)
    IN  IF \/ Contains(text_lower, <<"s", "t", "r", "o", "n", "g", " ", "b", "u", "y">>)
           \/ Contains(text_lower, <<"h", "i", "g", "h", "l", "y", " ", "r", "e", "c", "o", "m", "m", "e", "n", "d">>)
        THEN Go
        ELSE IF \/ Contains(text_lower, <<"a", "v", "o", "i", "d">>)
                \/ Contains(text_lower, <<"p", "a", "s", "s">>)
                \/ Contains(text_lower, <<"h", "i", "g", "h", " ", "r", "i", "s", "k">>)
        THEN NoGo
        ELSE Monitor

\* analysis_json after the classification call returned a completion
Classification(reply) ==
    IF json_loads(reply).ok THEN json_loads(reply).val
    ELSE Dict(("web3_analysis" :> Str(reply.chars))
              @@ ("category" :> Str(_extract_category(reply.chars)))
              @@ ("recommendation" :> Str(_extract_recommendation(reply.chars))))

\* the except branch of analyze_web3_company
AnalysisFailed(message) ==
    Dict(("error" :> Str(message)) @@ ("analysis" :> Str(<<"Failed to complete Web3 analysis">>)))

NeutralScore(message) ==
    Dict(("error" :> Str(message)) @@ ("overall_score" :> Num("5.0"))
         @@ ("investment_recommendation" :> Str(Monitor)))

_score_against_framework(reply) ==
    IF reply.status = "error" THEN NeutralScore(ConnectionError)
    ELSE IF json_loads(reply).ok THEN json_loads(reply).val
    ELSE NeutralScore(DecodeError)

\* analysis_json["framework_score"] = ... ; return analysis_json
WithFrameworkScore(analysis_json, score) ==
    IF IsDict(analysis_json) THEN Put(analysis_json, "framework_score", score)
    ELSE AnalysisFailed(<<"object does not support item assignment">>)

ClassifyReplyNames == {"error", "text", "text_go", "object", "array"}

ClassifyReply(n) ==
    CASE n = "error" -> Fail
      [] n = "text" -> Raw(<<"A", " ", "D", "e", "F", "i", " ", "b", "e", "t", ":", " ", "a", "v", "o", "i", "d">>)
      [] n = "text_go" -> Raw(<<"S", "t", "r", "o", "n", "g", " ", "b", "u", "y">>)
      [] n = "object" ->
            Json(Dict(("category" :> Str(<<"N", "F", "T">>)) @@ ("token_analysis" :> Str(<<"none">>))))
      [] n = "array" -> Json(List(<<Dict("section" :> Str(<<"Token Analysis">>))>>))

ScoreReplyNames == {"error", "text", "object", "partial_object", "number"}

ScoreReply(n) ==
    CASE n = "error" -> Fail
      [] n = "text" -> Raw(<<"T", "e", "a", "m", ":", " ", "8">>)
      [] n = "object" ->
            Json(Dict(("team_score" :> Num("8")) @@ ("overall_score" :> Num("8.5"))
                      @@ ("investment_recommendation" :> Str(Go))))
      [] n = "partial_object" -> Json(Dict("team_score" :> Num("8")))
      [] n = "number" -> Json(Num("7"))

----------------------------------------------------------------------------
(* DiligenceAgent *)

Timestamp == <<"2026-01-01 00:00:00">>

\* report_data with the dossier stored under both raw_data keys
report_data_one_source(company, research_data, web3_analysis) ==
    Dict(("company_name" :> Str(company.company_name)) @@ ("generated_at" :> Str(Timestamp))
         @@ ("executive_summary" :> Str(<<>>)) @@ ("investment_recommendation" :> Str(<<>>))
         @@ ("key_findings" :> List(<<>>)) @@ ("risks" :> List(<<>>))
         @@ ("opportunities" :> List(<<>>)) @@ ("next_steps" :> List(<<>>))
         @@ ("scoring" :> Get(web3_analysis, "framework_score", EmptyDict))
         @@ ("raw_data" :> Dict(("research" :> research_data) @@ ("web3_analysis" :> research_data))))

\* report_data as generate_report builds it before the first model call
report_data(company, research_data, web3_analysis) ==
    Dict(("company_name" :> Str(company.company_name)) @@ ("generated_at" :> Str(Timestamp))
         @@ ("executive_summary" :> Str(<<>>)) @@ ("investment_recommendation" :> Str(<<>>))
         @@ ("key_findings" :> List(<<>>)) @@ ("risks" :> List(<<>>))
         @@ ("opportunities" :> List(<<>>)) @@ ("next_steps" :> List(<<>>))
         @@ ("scoring" :> Get(web3_analysis, "framework_score", EmptyDict))
         @@ ("raw_data" :> Dict(("research" :> research_data) @@ ("web3_analysis" :> web3_analysis))))

SummaryFailed == <<"Executive summary generation failed: ">>

\* a summary that comes back empty when the completion fails
summary_blank_on_failure(reply) ==
    IF reply.status = "error" THEN Str(<<>>)
    ELSE Str(reply.chars)

_generate_executive_summary(reply) ==
    IF reply.status = "error" THEN Str(SummaryFailed \o ConnectionError)
    ELSE Str(reply.chars)

AnalysisStub(message) ==
    Dict(("investment_recommendation" :> Str(Monitor))
         @@ ("key_findings" :> List(<<Str(<<"Analysis generation failed: ">> \o message)>>))
         @@ ("risks" :> List(<<Str(<<"Unable to assess risks due to analysis error">>)>>))
         @@ ("opportunities" :> List(<<Str(<<"Unable to assess opportunities due to analysis error">>)>>))
         @@ ("next_steps" :> List(<<Str(<<"Manual review required">>)>>)))

_generate_structured_analysis(reply) ==
    IF reply.status = "error" THEN AnalysisStub(ConnectionError)
    ELSE IF json_loads(reply).ok THEN json_loads(reply).val
    ELSE AnalysisStub(DecodeError)

\* report_data.update(structured_analysis) raises on what is no mapping
UpdateRaises(structured_analysis) == ~CanUpdate(structured_analysis)

\* report_data['company_name'].replace(...) is evaluated in the try block and
\* again in the except block of _generate_pdf_report
RenderRaises(report) == ~IsStr(report.v["company_name"])

PdfPath(report) ==
    <<"reports/">> \o ReplaceSpaces(report.v["company_name"].v) \o <<"_", "20260101_0000", ".pdf">>

ErrorPath(report) ==
    <<"reports/error_">> \o ReplaceSpaces(report.v["company_name"].v) \o <<".txt">>

RenderOutcomes == {"ok", "error"}

_generate_pdf_report(report, render) == IF render = "ok" THEN PdfPath(report) ELSE ErrorPath(report)

SummaryReplyNames == {"error", "text"}

SummaryReply(n) ==
    CASE n = "error" -> Fail
      [] n = "text" -> Raw(<<"A", " ", "s", "o", "l", "i", "d", " ", "b", "e", "t", ".">>)

StructuredReplyNames ==
    {"error", "text", "object", "partial_object", "renaming_object", "array", "null"}

StructuredReply(n) ==
    CASE n = "error" -> Fail
      [] n = "text" -> Raw(<<"G", "o">>)
      [] n = "object" ->
            Json(Dict(("investment_recommendation" :> Str(Go))
                      @@ ("key_findings" :> List(<<Str(<<"Finding 1">>)>>))
                      @@ ("risks" :> List(<<Str(<<"Risk 1">>)>>))
                      @@ ("opportunities" :> List(<<Str(<<"Opportunity 1">>)>>))
                      @@ ("next_steps" :> List(<<Str(<<"Next step 1">>)>>))))
      [] n = "partial_object" -> Json(Dict("key_findings" :> List(<<Str(<<"Finding 1">>)>>)))
      [] n = "renaming_object" ->
            Json(Dict(("investment_recommendation" :> Str(NoGo)) @@ ("company_name" :> Num("1"))))
      [] n = "array" -> Json(List(<<Str(<<"Finding 1">>)>>))
      [] n = "null" -> Json(Null)

----------------------------------------------------------------------------
(* AirtableClient *)

ExternalIds == {"X1", "X2"}

\* the table's rows in the order a filtered listing returns them
Rows == <<"rec1", "rec2", "rec3">>

RowIds == {Rows[i] : i \in 1..Len(Rows)}

ExternalIdOf(row) == IF row = "rec2" THEN "X2" ELSE "X1"

NoRecord == "None"

Now == <<"now">>

InitialRecord(row) ==
    ("External ID" :> Str(<<ExternalIdOf(row)>>)) @@ ("Stage" :> Str(<<"New Lead">>))
    @@ ("Diligence Status" :> Str(<<"Pending">>)) @@ ("AI Recommendation" :> Str(<<>>))
    @@ ("Last Updated" :> Str(<<"earlier">>)) @@ ("Partner Decision" :> Str(<<"Undecided">>))

LookupOutcomes == {"ok", "error"}

PatchOutcomes == {"ok", "error", "unreadable"}

\* a lookup that ignores the filter formula and takes the table's first row
get_record_unfiltered(st, external_id, lookup) ==
    IF lookup = "error" THEN NoRecord ELSE Rows[1]

\* records[0] of the filtered listing, None when it is empty or the request failed
get_record_by_external_id(st, external_id, lookup) ==
    LET hits == {i \in 1..Len(Rows) : IsText(st[Rows[i]]["External ID"], <<external_id>>)}
    IN  IF lookup = "error" \/ hits = {} THEN NoRecord
        ELSE Rows[CHOOSE i \in hits : \A j \in hits : i <= j]

\* PUT on one row: the named fields are written and every other field is cleared
Replaced(st, row, fields) ==
    [st EXCEPT ![row] = [f \in DOMAIN @ \cup DOMAIN fields |->
                            IF f \in DOMAIN fields THEN fields[f] ELSE Str(<<>>)]]

\* PATCH {'fields': fields} on one row: the named fields are replaced
Patched(st, row, fields) ==
    [st EXCEPT ![row] = [f \in DOMAIN @ \cup DOMAIN fields |->
                            IF f \in DOMAIN fields THEN fields[f] ELSE @[f]]]

\* an update that patches every record the filter matches
update_record_every_match(st, external_id, fields, lookup, patch) ==
    LET record == get_record_by_external_id(st, external_id, lookup)
        hits == {row \in RowIds : IsText(st[row]["External ID"], <<external_id>>)}
    IN  IF record = NoRecord \/ patch = "error"
        THEN [store |-> st, raised |-> TRUE, row |-> NoRecord]
        ELSE [store |-> [row \in RowIds |->
                            IF row \in hits THEN Patched(st, row, fields)[row] ELSE st[row]],
              raised |-> patch # "ok", row |-> record]

\* update_record: the store afterwards, and whether the call raised.  An
\* "unreadable" patch is applied by the store but its response does not
\* decode (response.json() raises).
update_record(st, external_id, fields, lookup, patch) ==
    LET record == get_record_by_external_id(st, external_id, lookup)
    IN  IF record = NoRecord \/ patch = "error"
        THEN [store |-> st, raised |-> TRUE, row |-> NoRecord]
        ELSE [store |-> Patched(st, record, fields), raised |-> patch # "ok", row |-> record]

----------------------------------------------------------------------------
(* process_company_research *)

InProgressFields ==
    ("Stage" :> Str(<<"Initial Research">>)) @@ ("Diligence Status" :> Str(<<"In Progress">>))
    @@ ("Last Updated" :> Str(Now))

\* the Complete update reading the other entrypoint's field name
CompleteFieldsOtherKey(report) ==
    ("Stage" :> Str(<<"Partner Review">>)) @@ ("Diligence Status" :> Str(<<"Complete">>))
    @@ ("AI Recommendation" :> Get(report, "recommendation", Str(Monitor)))
    @@ ("Last Updated" :> Str(Now))

CompleteFields(report) ==
    ("Stage" :> Str(<<"Partner Review">>)) @@ ("Diligence Status" :> Str(<<"Complete">>))
    @@ ("AI Recommendation" :> Get(report, "investment_recommendation", Str(Monitor)))
    @@ ("Last Updated" :> Str(Now))

\* an error update that leaves Diligence Status alone
FailedFieldsNoStatus ==
    ("Stage" :> Str(<<"New Lead">>))
    @@ ("AI Recommendation" :> Str(<<"Error - Review Manually">>))
    @@ ("Last Updated" :> Str(Now))

FailedFields ==
    ("Stage" :> Str(<<"New Lead">>)) @@ ("Diligence Status" :> Str(<<"Failed">>))
    @@ ("AI Recommendation" :> Str(<<"Error - Review Manually">>))
    @@ ("Last Updated" :> Str(Now))

\* the arguments of email_client.send_diligence_report
EmailArgs(company, report) ==
    [company_name |-> company.company_name,
     pdf_path |-> Get(report, "pdf_path", Str(<<>>)),
     summary |-> Get(report, "executive_summary", Str(<<"Summary not available">>))]

----------------------------------------------------------------------------
(* State *)

ConcurrentReplies == {"object", "array"}

NoResponse == [message |-> <<>>, external_id |-> "", status |-> ""]

IdleRun ==
    [pc |-> "idle", research |-> Null, analysis |-> Null, report |-> Null,
     exc |-> "", raised_at |-> 0, result |-> "", log |-> <<>>, updates |-> <<>>, emails |-> <<>>,
     produced |-> <<>>, files |-> <<>>, response |-> NoResponse]

\* probe holds the input and the result of an operation exercised on its own;
\* the pipeline leaves it alone
NoProbe == [op |-> "none"]

Init ==
    /\ active = {"X1"}
    /\ run = [id \in ExternalIds |-> IdleRun]
    /\ store = [row \in RowIds |-> InitialRecord(row)]
    /\ probe = NoProbe

\* the completions drawn for a call: all of them while one run is active;
\* while several runs interleave, the ConcurrentReplies among them where the
\* call has any
Offered(names) ==
    IF Cardinality(active) > 1 /\ names \cap ConcurrentReplies # {}
    THEN names \cap ConcurrentReplies
    ELSE names

Entry(call, outcome, arg) == [call |-> call, outcome |-> outcome, arg |-> arg]

\* the orchestrator with the Complete update outside the guarded sequence
RaisePastUpdate(r, step) ==
    [r EXCEPT !.pc = IF step = "update_record" /\ Len(r.updates) = 2 THEN "email" ELSE "handler",
              !.exc = step, !.raised_at = Len(r.log)]

\* an exception reaches the except clause of process_company_research
Raise(r, step) == [r EXCEPT !.pc = "handler", !.exc = step, !.raised_at = Len(r.log)]

\* an except clause that re-raises when its own update fails
HandlerReraises(raised) == IF raised THEN "raised" ELSE "returned"

\* the bare except around the Failed update: the task returns either way
HandlerExit(raised) == "returned"

Set(id, r) == run' = [run EXCEPT ![id] = r]

----------------------------------------------------------------------------
(* Actions *)

\* an endpoint that starts the task but only answers when the task is over
trigger_research_awaiting(r, company) == [r EXCEPT !.pc = "scheduled"]

\* trigger_research: add_task queues process_company_research, and the
\* response is returned before the task has run
trigger_research(r, company) ==
    [r EXCEPT
        !.pc = "scheduled",
        !.response = [message |-> <<"Research started for ">> \o company.company_name,
                      external_id |-> company.external_id, status |-> "processing"]]

\* POST /trigger-research
Trigger(id) ==
    /\ id \in active
    /\ run[id].pc = "idle"
    /\ Set(id, trigger_research(run[id], Company(id)))
    /\ UNCHANGED <<active, store, probe>>

\* Step 1: the In Progress update
UpdateInProgress(id) ==
    /\ run[id].pc = "scheduled"
    /\ \E lookup \in LookupOutcomes, patch \in PatchOutcomes :
         LET u == update_record(store, id, InProgressFields, lookup, patch)
             r == [run[id] EXCEPT
                     !.log = Append(@, Entry("update_record", IF u.raised THEN "raised" ELSE "ok", Null)),
                     !.updates = Append(@, [fields |-> InProgressFields, raised |-> u.raised, row |-> u.row])]
         IN  /\ store' = u.store
             /\ Set(id, IF u.raised THEN Raise(r, "update_record") ELSE [r EXCEPT !.pc = "scrape"])
    /\ UNCHANGED <<active, probe>>

\* Step 2: research_company up to its first await, _scrape_website
ScrapeWebsite(id) ==
    /\ run[id].pc = "scrape"
    /\ \E fetch \in FetchOutcomes :
         LET company == Company(id)
             website_data == _scrape_website(company.website, fetch)
         IN  Set(id, [run[id] EXCEPT
                 !.pc = "search",
                 !.research = AfterScrape(research_results(company), website_data),
                 !.log = @ \o <<Entry("research_company", "called", Null),
                                Entry("_scrape_website", fetch, Null)>>])
    /\ UNCHANGED <<active, store, probe>>

WebSearch(id) ==
    /\ run[id].pc = "search"
    /\ \E n \in Offered(SearchReplyNames) :
         LET search_data == _web_search(SearchReply(n))
             r == [run[id] EXCEPT !.log = Append(@, Entry("_web_search", n, Null))]
         IN  Set(id, IF SearchRaises(search_data)
                     THEN Raise(r, "research_company")
                     ELSE [r EXCEPT !.pc = "team",
                                    !.research = AfterSearch(@, search_data)])
    /\ UNCHANGED <<active, store, probe>>

\* _research_team, then research_company returns the dossier
ResearchTeam(id) ==
    /\ run[id].pc = "team"
    /\ \E n \in Offered(TeamReplyNames) :
         Set(id, [run[id] EXCEPT
                 !.pc = "classify",
                 !.research = AfterTeam(@, _research_team(TeamReply(n))),
                 !.produced = Append(@, "ResearchDossier"),
                 !.log = Append(@, Entry("_research_team", n, Null))])
    /\ UNCHANGED <<active, store, probe>>

\* Step 3: analyze_web3_company up to the classification completion
Classify(id) ==
    /\ run[id].pc = "classify"
    /\ \E n \in Offered(ClassifyReplyNames) :
         LET reply == ClassifyReply(n)
             r == [run[id] EXCEPT
                     !.log = @ \o <<Entry("analyze_web3_company", "called", run[id].research),
                                    Entry("classification", n, Null)>>]
         IN  Set(id, IF reply.status = "error"
                     THEN [r EXCEPT !.pc = "summary",
                                    !.analysis = AnalysisFailed(ConnectionError),
                                    !.produced = Append(@, "DomainAnalysis")]
                     ELSE [r EXCEPT !.pc = "score",
                                    !.analysis = Classification(reply)])
    /\ UNCHANGED <<active, store, probe>>

\* _score_against_framework, then analyze_web3_company returns
Score(id) ==
    /\ run[id].pc = "score"
    /\ \E n \in Offered(ScoreReplyNames) :
         Set(id, [run[id] EXCEPT
                 !.pc = "summary",
                 !.analysis = WithFrameworkScore(@, _score_against_framework(ScoreReply(n))),
                 !.produced = Append(@, "DomainAnalysis"),
                 !.log = Append(@, Entry("scoring", n, Null))])
    /\ UNCHANGED <<active, store, probe>>

\* Step 4: generate_report up to _generate_executive_summary
ExecutiveSummary(id) ==
    /\ run[id].pc = "summary"
    /\ \E n \in Offered(SummaryReplyNames) :
         LET r == run[id]
             report == report_data(Company(id), r.research, r.analysis)
         IN  Set(id, [r EXCEPT
                 !.pc = "structured",
                 !.report = Put(report, "executive_summary", _generate_executive_summary(SummaryReply(n))),
                 !.log = @ \o <<Entry("generate_report", "called", List(<<r.research, r.analysis>>)),
                                Entry("summary", n, Null)>>])
    /\ UNCHANGED <<active, store, probe>>

\* _generate_structured_analysis and report_data.update
StructuredAnalysis(id) ==
    /\ run[id].pc = "structured"
    /\ \E n \in Offered(StructuredReplyNames) :
         LET structured_analysis == _generate_structured_analysis(StructuredReply(n))
             r == [run[id] EXCEPT !.log = Append(@, Entry("structured", n, Null))]
         IN  Set(id, IF UpdateRaises(structured_analysis)
                     THEN Raise(r, "generate_report")
                     ELSE [r EXCEPT !.pc = "render",
                                    !.report = Update(@, structured_analysis)])
    /\ UNCHANGED <<active, store, probe>>

\* _generate_pdf_report, then generate_report returns
RenderPdf(id) ==
    /\ run[id].pc = "render"
    /\ \E render \in RenderOutcomes :
         LET r == [run[id] EXCEPT !.log = Append(@, Entry("_generate_pdf_report", render, Null))]
         IN  Set(id, IF RenderRaises(r.report)
                     THEN Raise(r, "generate_report")
                     ELSE [r EXCEPT
                             !.pc = "complete",
                             !.report = Put(@, "pdf_path", Str(_generate_pdf_report(r.report, render))),
                             !.files = IF render = "ok" THEN Append(@, PdfPath(r.report)) ELSE @,
                             !.produced = Append(@, "DiligenceReport")])
    /\ UNCHANGED <<active, store, probe>>

\* Step 5: the Complete update
UpdateComplete(id) ==
    /\ run[id].pc = "complete"
    /\ \E lookup \in LookupOutcomes, patch \in PatchOutcomes :
         LET fields == CompleteFields(run[id].report)
             u == update_record(store, id, fields, lookup, patch)
             r == [run[id] EXCEPT
                     !.log = Append(@, Entry("update_record", IF u.raised THEN "raised" ELSE "ok", Null)),
                     !.updates = Append(@, [fields |-> fields, raised |-> u.raised, row |-> u.row])]
         IN  /\ store' = u.store
             /\ Set(id, IF u.raised THEN Raise(r, "update_record") ELSE [r EXCEPT !.pc = "email"])
    /\ UNCHANGED <<active, probe>>

\* a notification client that lets a delivery error escape
send_diligence_report_raising(delivered) == [value |-> delivered, raised |-> ~delivered]

\* send_diligence_report: everything it does is inside one try block, so a
\* delivery error is answered with False
send_diligence_report(delivered) == [value |-> delivered, raised |-> FALSE]

\* Step 6: the notification, then the task ends
SendEmail(id) ==
    /\ run[id].pc = "email"
    /\ \E delivered \in BOOLEAN :
         LET sent == send_diligence_report(delivered)
             r == [run[id] EXCEPT
                     !.emails = Append(@, EmailArgs(Company(id), run[id].report)),
                     !.log = Append(@, Entry("send_diligence_report",
                                             IF delivered THEN "sent" ELSE "failed", Null))]
         IN  Set(id, IF sent.raised
                     THEN Raise(r, "send_diligence_report")
                     ELSE [r EXCEPT !.pc = "done", !.result = "returned"])
    /\ UNCHANGED <<active, store, probe>>

\* the except clause: the best-effort Failed update
UpdateFailed(id) ==
    /\ run[id].pc = "handler"
    /\ \E lookup \in LookupOutcomes, patch \in PatchOutcomes :
         LET u == update_record(store, id, FailedFields, lookup, patch)
         IN  /\ store' = u.store
             /\ Set(id, [run[id] EXCEPT
                     !.pc = "done",
                     !.result = HandlerExit(u.raised),
                     !.log = Append(@, Entry("update_record", IF u.raised THEN "raised" ELSE "ok", Null)),
                     !.updates = Append(@, [fields |-> FailedFields, raised |-> u.raised, row |-> u.row])])
    /\ UNCHANGED <<active, probe>>

\* one step of the background task process_company_research
Resume(id) ==
        \/ UpdateInProgress(id)
        \/ ScrapeWebsite(id)
        \/ WebSearch(id)
        \/ ResearchTeam(id)
        \/ Classify(id)
        \/ Score(id)
        \/ ExecutiveSummary(id)
        \/ StructuredAnalysis(id)
        \/ RenderPdf(id)
        \/ UpdateComplete(id)
        \/ SendEmail(id)
        \/ UpdateFailed(id)

Next == \E id \in ExternalIds : Trigger(id) \/ Resume(id)

Spec == Init /\ [][Next]_vars

\* two requests, for distinct external ids, whose background runs interleave
InitConcurrent ==
    /\ active = ExternalIds
    /\ run = [id \in ExternalIds |-> IdleRun]
    /\ store = [row \in RowIds |-> InitialRecord(row)]
    /\ probe = NoProbe

SpecConcurrent == InitConcurrent /\ [][Next]_vars

\* the background-task scheduler runs every scheduled task to its end: each
\* await of a run eventually resumes
FairSpec == Spec /\ \A id \in ExternalIds : WF_vars(Resume(id))

----------------------------------------------------------------------------
(* Observations used by the properties *)

Done(id) == run[id].pc = "done"

\* the record a lookup by external id resolves to
RecordOf(id) == store[get_record_by_external_id(store, id, "ok")]

StatusIs(id, status) == IsText(RecordOf(id)["Diligence Status"], <<status>>)

Calls(r) == [i \in 1..Len(r.log) |-> r.log[i].call]

Stages == <<"research_company", "analyze_web3_company", "generate_report">>

Artifacts == <<"ResearchDossier", "DomainAnalysis", "DiligenceReport">>

RECURSIVE Filter(_, _)
Filter(s, keep) ==
    IF s = <<>> THEN <<>>
    ELSE IF Head(s) \in keep THEN <<Head(s)>> \o Filter(Tail(s), keep)
    ELSE Filter(Tail(s), keep)

StageCalls(r) == Filter(Calls(r), {Stages[i] : i \in 1..Len(Stages)})

IsPrefix(s, t) == Len(s) <= Len(t) /\ SubSeq(t, 1, Len(s)) = s

OutcomeOf(r, call) == r.log[CHOOSE i \in 1..Len(r.log) : r.log[i].call = call].outcome

Called(r, call) == \E i \in 1..Len(r.log) : r.log[i].call = call

TimesCalled(r, call) == Cardinality({i \in 1..Len(r.log) : r.log[i].call = call})

\* the run took the except clause of process_company_research
TookHandler(r) == r.exc # ""

\* the store applied the last update the run issued
LastUpdateApplied(r) == r.updates # <<>> /\ r.updates[Len(r.updates)].row # NoRecord

----------------------------------------------------------------------------
(* C1 *)

\* C1 as stated: a terminated run has left Diligence Status at Complete or
\* Failed, never at Pending or In Progress.
C1_TerminalStatusAlways ==
    \A id \in ExternalIds :
        Done(id) => (StatusIs(id, "Complete") \/ StatusIs(id, "Failed"))

\* C1 (amended): every scheduled run terminates, and once it has terminated
\* the record's Diligence Status is Complete or Failed whenever the record
\* store applied the last update the run issued.
C1_TerminatesWithTerminalStatus ==
    /\ \A id \in ExternalIds : (run[id].pc = "scheduled") ~> Done(id)
    /\ [](\A id \in ExternalIds :
            (Done(id) /\ LastUpdateApplied(run[id]))
                => (StatusIs(id, "Complete") \/ StatusIs(id, "Failed")))

\* a run forced into the except clause after the In Progress update has ended Failed
C1_Witness ==
    \E id \in ExternalIds :
        /\ Done(id)
        /\ TookHandler(run[id])
        /\ ~run[id].updates[1].raised
        /\ StatusIs(id, "Failed")

----------------------------------------------------------------------------
(* C2 *)

\* record store, stages and rendering all succeeded
AllSucceeded(r) ==
    /\ r.pc = "done"
    /\ ~TookHandler(r)
    /\ \A i \in 1..Len(r.updates) : ~r.updates[i].raised
    /\ OutcomeOf(r, "_generate_pdf_report") = "ok"

\* C2: in a run where the record store, the stages and rendering succeed the
\* store observes exactly the In Progress update, issued before any stage,
\* then the Complete update carrying the report's investment_recommendation,
\* and the notification is sent exactly once, after the Complete update,
\* with (company_name, pdf_path, executive_summary).
C2_TwoUpdatesThenOneNotification ==
    \A id \in ExternalIds :
        LET r == run[id] IN
        AllSucceeded(r) =>
            /\ Len(r.updates) = 2
            /\ \A i \in 1..2 : r.updates[i].row = get_record_by_external_id(store, id, "ok")
            /\ r.updates[1].fields =
                    ("Stage" :> Str(<<"Initial Research">>))
                    @@ ("Diligence Status" :> Str(<<"In Progress">>))
                    @@ ("Last Updated" :> Str(Now))
            /\ r.updates[2].fields =
                    ("Stage" :> Str(<<"Partner Review">>))
                    @@ ("Diligence Status" :> Str(<<"Complete">>))
                    @@ ("AI Recommendation" :> r.report.v["investment_recommendation"])
                    @@ ("Last Updated" :> Str(Now))
            /\ r.log[1].call = "update_record"
            /\ \A i \in 2..Len(r.log) - 2 : r.log[i].call # "update_record"
            /\ r.log[Len(r.log) - 1].call = "update_record"
            /\ r.log[Len(r.log)].call = "send_diligence_report"
            /\ TimesCalled(r, "send_diligence_report") = 1
            /\ r.emails = <<[company_name |-> CompanyName(id),
                             pdf_path |-> r.report.v["pdf_path"],
                             summary |-> r.report.v["executive_summary"]]>>

\* a fully successful run whose report recommends Go
C2_Witness ==
    \E id \in ExternalIds :
        /\ AllSucceeded(run[id])
        /\ IsText(RecordOf(id)["AI Recommendation"], Go)
        /\ Len(run[id].emails) = 1

----------------------------------------------------------------------------
(* C3 *)

\* C3: when a step raises after the In Progress update, the run issues
\* exactly one further update, the Failed one, runs no other step and sends
\* no notification.
C3_RaiseLeadsToOneFailedUpdate ==
    \A id \in ExternalIds :
        LET r == run[id] IN
        (Done(id) /\ TookHandler(r) /\ ~r.updates[1].raised) =>
            /\ Len(r.log) = r.raised_at + 1
            /\ r.log[Len(r.log)].call = "update_record"
            /\ r.updates[Len(r.updates)].fields =
                    ("Stage" :> Str(<<"New Lead">>))
                    @@ ("Diligence Status" :> Str(<<"Failed">>))
                    @@ ("AI Recommendation" :> Str(<<"Error - Review Manually">>))
                    @@ ("Last Updated" :> Str(Now))
            /\ TimesCalled(r, "update_record") =
                    1 + (IF r.exc = "update_record" THEN 1 ELSE 0) + 1
            /\ ~Called(r, "send_diligence_report")
            /\ r.emails = <<>>

\* the Complete update raised and the Failed update followed it
C3_Witness ==
    \E id \in ExternalIds :
        /\ Done(id)
        /\ run[id].exc = "update_record"
        /\ Len(run[id].updates) = 3
        /\ StatusIs(id, "Failed")

----------------------------------------------------------------------------
(* C4 *)

\* C4: the task never raises to its caller; when the Failed update raises as
\* well the run ends normally right there, with no further update or
\* notification.
C4_NeverPropagates ==
    \A id \in ExternalIds :
        LET r == run[id] IN
        /\ r.result # "raised"
        /\ Done(id) => r.result = "returned"
        /\ (Done(id) /\ TookHandler(r) /\ r.updates[Len(r.updates)].raised) =>
                /\ Len(r.log) = r.raised_at + 1
                /\ r.emails = <<>>

\* a stage raised and the Failed update raised too
C4_Witness ==
    \E id \in ExternalIds :
        /\ Done(id)
        /\ run[id].exc = "generate_report"
        /\ run[id].updates[Len(run[id].updates)].raised
        /\ run[id].result = "returned"

----------------------------------------------------------------------------
(* C5 *)

\* C5 as stated: a run that takes the Failed transition has produced neither
\* a DomainAnalysis nor a DiligenceReport nor a rendered file, and the store
\* holds the Failed status.
C5_FailedRunProducesNothing ==
    \A id \in ExternalIds :
        LET r == run[id] IN
        (Done(id) /\ TookHandler(r)) =>
            /\ \A i \in 1..Len(r.produced) : r.produced[i] \notin {"DomainAnalysis", "DiligenceReport"}
            /\ r.files = <<>>
            /\ StatusIs(id, "Failed")

\* C5 (amended): a run that ends Complete has invoked the three stages once
\* each, in order, each on the previous stage's output, and holds one
\* artifact of each kind; a run that takes the Failed transition has invoked
\* a prefix of that sequence once each and holds at most one artifact of each
\* kind (possibly all three and the rendered file), has issued exactly one
\* Failed update, and the store holds Failed if it applied that update.
C5_ArtifactsPerRun ==
    \A id \in ExternalIds :
        LET r == run[id]
            last == r.updates[Len(r.updates)]
        IN
        /\ (Done(id) /\ ~TookHandler(r)) =>
                /\ StageCalls(r) = Stages
                /\ r.produced = Artifacts
                /\ \A i \in 1..Len(r.log) :
                      /\ r.log[i].call = "analyze_web3_company" => r.log[i].arg = r.research
                      /\ r.log[i].call = "generate_report" => r.log[i].arg = List(<<r.research, r.analysis>>)
                /\ r.report.v["raw_data"] =
                      Dict(("research" :> r.research) @@ ("web3_analysis" :> r.analysis))
                /\ Len(r.files) <= 1
        /\ (Done(id) /\ TookHandler(r)) =>
                /\ IsPrefix(StageCalls(r), Stages)
                /\ IsPrefix(r.produced, Artifacts)
                /\ Len(r.produced) <= Len(StageCalls(r))
                /\ Len(r.files) <= 1
                /\ last.fields = FailedFields
                /\ Cardinality({i \in 1..Len(r.updates) : r.updates[i].fields = FailedFields}) = 1
                /\ last.row # NoRecord => StatusIs(id, "Failed")

\* the Complete update raised: the failed run holds a rendered report
C5_Witness ==
    \E id \in ExternalIds :
        /\ Done(id)
        /\ TookHandler(run[id])
        /\ run[id].produced = Artifacts
        /\ Len(run[id].files) = 1
        /\ StatusIs(id, "Failed")

\* a run that ended Complete with its three artifacts
C5_WitnessComplete ==
    \E id \in ExternalIds :
        Done(id) /\ ~TookHandler(run[id]) /\ run[id].produced = Artifacts

----------------------------------------------------------------------------
(* C6 *)

\* C6: when every record-store update succeeds the run ends Complete and
\* never takes the Failed transition, whatever the fetch, the six
\* completions and rendering do.
C6_StagesAbsorbFailures ==
    \A id \in ExternalIds :
        LET r == run[id] IN
        /\ (r.pc = "handler" /\ \A i \in 1..Len(r.updates) : ~r.updates[i].raised) => FALSE
        /\ (Done(id) /\ \A i \in 1..Len(r.updates) : ~r.updates[i].raised) =>
                (~TookHandler(r) /\ StatusIs(id, "Complete"))

----------------------------------------------------------------------------
(* C7 *)

ReportKeys ==
    {"executive_summary", "investment_recommendation", "key_findings", "risks",
     "opportunities", "next_steps", "scoring", "raw_data", "pdf_path"}

\* generate_report has been called and is no longer running
ReportCallEnded(r) ==
    Called(r, "generate_report") /\ r.pc \notin {"structured", "render"}

\* C7: generate_report always returns, without raising, a report holding
\* every report key, and a rendering failure yields the placeholder path
\* reports/error_<company>.txt.
C7_ReportAlwaysReturned ==
    \A id \in ExternalIds :
        LET r == run[id] IN
        ReportCallEnded(r) =>
            /\ r.exc # "generate_report"
            /\ ReportKeys \subseteq DOMAIN r.report.v
            /\ OutcomeOf(r, "_generate_pdf_report") = "error" =>
                    IsText(r.report.v["pdf_path"],
                           <<"reports/error_">> \o ReplaceSpaces(CompanyName(id)) \o <<".txt">>)

----------------------------------------------------------------------------
(* C8 *)

\* both completions of generate_report failed (the structured one by
\* transport error or by a reply that is no JSON)
BothReportCallsFailed(r) ==
    /\ Called(r, "_generate_pdf_report")
    /\ r.exc # "generate_report"
    /\ OutcomeOf(r, "summary") = "error"
    /\ OutcomeOf(r, "structured") \in {"error", "text"}

\* C8: when both completions of generate_report fail the report has an
\* executive_summary starting with "Executive summary generation failed:",
\* recommendation Monitor, a first key finding starting with "Analysis
\* generation failed:", non-empty risks and opportunities and next_steps =
\* ["Manual review required"].
C8_TotalEnrichmentFailure ==
    \A id \in ExternalIds :
        LET r == run[id]
            rep == r.report.v
        IN
        BothReportCallsFailed(r) =>
            /\ IsStr(rep["executive_summary"])
            /\ rep["executive_summary"].v # <<>>
            /\ StartsWith(rep["executive_summary"].v, <<"Executive summary generation failed: ">>)
            /\ IsText(rep["investment_recommendation"], <<"Monitor">>)
            /\ rep["key_findings"].kind = "list"
            /\ Len(rep["key_findings"].v) >= 1
            /\ StartsWith(rep["key_findings"].v[1].v, <<"Analysis generation failed: ">>)
            /\ rep["risks"].kind = "list" /\ rep["risks"].v # <<>>
            /\ rep["opportunities"].kind = "list" /\ rep["opportunities"].v # <<>>
            /\ rep["next_steps"] = List(<<Str(<<"Manual review required">>)>>)

\* a report returned after both of its completions failed by transport error
C8_Witness ==
    \E id \in ExternalIds :
        /\ BothReportCallsFailed(run[id])
        /\ OutcomeOf(run[id], "structured") = "error"
        /\ HasKey(run[id].report, "pdf_path")

----------------------------------------------------------------------------
(* C9 *)

\* research_company has been called and is no longer running
ResearchCallEnded(r) ==
    Called(r, "research_company") /\ r.pc \notin {"search", "team"}

OnlyTransportFailures(r) ==
    /\ OutcomeOf(r, "_web_search") \in {"error", "object"}
    /\ Called(r, "_research_team") => OutcomeOf(r, "_research_team") \in {"error", "object"}

\* an error marker in a sub-result of the dossier
ErrorTagged(x) ==
    \/ HasKey(x, "error")
    \/ x.kind = "list" /\ \E i \in 1..Len(x.v) : HasKey(x.v[i], "error")

\* C9: for every combination of failing sub-calls research_company invokes
\* all three once, returns the dossier, and each failed sub-call leaves an
\* error-tagged sub-result in it.
C9_FailureIsolatedResearch ==
    \A id \in ExternalIds :
        LET r == run[id]
            d == r.research.v
        IN
        (ResearchCallEnded(r) /\ OnlyTransportFailures(r)) =>
            /\ r.exc # "research_company"
            /\ \A c \in {"_scrape_website", "_web_search", "_research_team"} : TimesCalled(r, c) = 1
            /\ OutcomeOf(r, "_scrape_website") = "error" => HasKey(d["basic_info"], "error")
            /\ OutcomeOf(r, "_web_search") = "error" =>
                    (ErrorTagged(d["market_info"]) \/ ErrorTagged(d["news_mentions"]))
            /\ OutcomeOf(r, "_research_team") = "error" => HasKey(d["team_info"], "error")

----------------------------------------------------------------------------
(* C10 *)

\* C10: when the scoring completion fails or is no JSON, the returned
\* analysis carries framework_score with overall_score 5.0 and
\* recommendation Monitor, and keeps the classification result.
C10_NeutralScoreOnScoringFailure ==
    \A id \in ExternalIds :
        LET r == run[id]
            classified == Classification(ClassifyReply(OutcomeOf(r, "classification")))
        IN
        (Called(r, "scoring") /\ OutcomeOf(r, "scoring") \in {"error", "text"}) =>
            /\ HasKey(r.analysis, "framework_score")
            /\ HasKey(r.analysis.v["framework_score"], "overall_score")
            /\ r.analysis.v["framework_score"].v["overall_score"] = Num("5.0")
            /\ IsText(r.analysis.v["framework_score"].v["investment_recommendation"], <<"Monitor">>)
            /\ IsDict(classified) =>
                    \A k \in DOMAIN classified.v \ {"framework_score"} :
                        HasKey(r.analysis, k) /\ r.analysis.v[k] = classified.v[k]

----------------------------------------------------------------------------
(* C11 *)

HasProduced(r, artifact) == \E i \in 1..Len(r.produced) : r.produced[i] = artifact

\* the scoring completion gave no scorecard: it was never made, failed, or
\* was no JSON
NoScoreFromModel(r) ==
    ~Called(r, "scoring") \/ OutcomeOf(r, "scoring") \in {"error", "text"}

\* C11: every analysis analyze_web3_company returns carries a
\* framework_score with an overall_score, which is 5.0 / Monitor whenever no
\* score came from the model, and the report's scoring field always has an
\* overall_score.
C11_NeutralScoreEverywhere ==
    \A id \in ExternalIds :
        LET r == run[id] IN
        /\ HasProduced(r, "DomainAnalysis") =>
                /\ HasKey(r.analysis, "framework_score")
                /\ HasKey(r.analysis.v["framework_score"], "overall_score")
                /\ NoScoreFromModel(r) =>
                        /\ r.analysis.v["framework_score"].v["overall_score"] = Num("5.0")
                        /\ IsText(r.analysis.v["framework_score"].v["investment_recommendation"], <<"Monitor">>)
        /\ Called(r, "generate_report") => HasKey(r.report.v["scoring"], "overall_score")

----------------------------------------------------------------------------
(* The classification fallback on its own: analyze_web3_company's handling of
   a completion that is no JSON, for raw texts put together from fragments *)

MaxFragments == 2

Fragments ==
    { <<"D", "e", "F", "i">>,
      <<"n", "f", "t">>,
      <<"D", "A", "O">>,
      <<"I", "n", "f", "r", "a", "s", "t", "r", "u", "c", "t", "u", "r", "e">>,
      <<"g", "a", "m", "e">>,
      <<"f", "i">>,
      <<"d", "e">>,
      <<"S", "o", "c", "i", "a", "l">>,
      <<"t", "r", "a", "d", "i", "n", "g">>,
      <<"S", "t", "r", "o", "n", "g", " ", "B", "u", "y">>,
      <<"s", "t", "r">>,
      <<"o", "n", "g", " ", "b", "u", "y">>,
      <<"h", "i", "g", "h">>,
      <<"l", "y", " ", "R", "e", "c", "o", "m", "m", "e", "n", "d">>,
      <<"a", "v", "o", "i", "d">>,
      <<"c", "o", "m", "P", "A", "S", "S">>,
      <<"p", "a", "s">>,
      <<"s">>,
      <<"h", "i", "g", "h", " ", "r", "i", "s", "k">>,
      <<" ">> }

RECURSIVE TextsOf(_)
TextsOf(n) ==
    IF n = 0 THEN {<<>>}
    ELSE LET shorter == TextsOf(n - 1)
         IN  shorter \cup {t \o f : t \in shorter, f \in Fragments}

RawTexts == TextsOf(MaxFragments)

InitFallback ==
    /\ active = {}
    /\ run = [id \in ExternalIds |-> IdleRun]
    /\ store = [row \in RowIds |-> InitialRecord(row)]
    /\ probe \in {[op |-> "classify", text |-> t, done |-> FALSE, result |-> Null] : t \in RawTexts}

\* the except branch around json.loads(analysis_text)
FallbackClassification ==
    /\ probe.op = "classify"
    /\ ~probe.done
    /\ ~json_loads(Raw(probe.text)).ok
    /\ probe' = [probe EXCEPT !.done = TRUE, !.result = Classification(Raw(probe.text))]
    /\ UNCHANGED <<active, run, store>>

NextFallback == FallbackClassification

SpecFallback == InitFallback /\ [][NextFallback]_vars

----------------------------------------------------------------------------
(* C12 *)

\* two characters that differ at most in case
SameLetter(a, b) ==
    a = b \/ \E i \in 1..Len(UpperChars) : {a, b} = {UpperChars[i], LowerChars[i]}

\* word occurs in text as a substring, case ignored
OccursIn(word, text) ==
    \E start \in 1..(Len(text) - Len(word) + 1) :
        \A k \in 1..Len(word) : SameLetter(text[start + k - 1], word[k])

RefOrder ==
    << <<"D", "e", "F", "i">>,
       <<"N", "F", "T">>,
       <<"D", "A", "O">>,
       <<"I", "n", "f", "r", "a", "s", "t", "r", "u", "c", "t", "u", "r", "e">>,
       <<"G", "a", "m", "e", "F", "i">>,
       <<"S", "o", "c", "i", "a", "l">>,
       <<"T", "r", "a", "d", "i", "n", "g">> >>

RECURSIVE FirstOccurring(_, _)
FirstOccurring(text, i) ==
    IF i > Len(RefOrder) THEN <<"O", "t", "h", "e", "r">>
    ELSE IF OccursIn(RefOrder[i], text) THEN RefOrder[i]
    ELSE FirstOccurring(text, i + 1)

RefRecommendation(text) ==
    IF OccursIn(<<"s", "t", "r", "o", "n", "g", " ", "b", "u", "y">>, text) \/ OccursIn(<<"h", "i", "g", "h", "l", "y", " ", "r", "e", "c", "o", "m", "m", "e", "n", "d">>, text)
    THEN <<"Go">>
    ELSE IF OccursIn(<<"a", "v", "o", "i", "d">>, text) \/ OccursIn(<<"p", "a", "s", "s">>, text) \/ OccursIn(<<"h", "i", "g", "h", " ", "r", "i", "s", "k">>, text)
    THEN <<"No-Go">>
    ELSE <<"Monitor">>

\* C12: for every raw text that is no JSON the fallback classification has
\* as category the first of DeFi, NFT, DAO, Infrastructure, GameFi, Social,
\* Trading occurring in the text, case ignored, else Other, and as
\* recommendation Go on "strong buy" or "highly recommend" (whatever else
\* occurs), else No-Go on "avoid", "pass" or "high risk", else Monitor.
C12_FallbackMatchesReference ==
    (probe.op = "classify" /\ probe.done) =>
        /\ IsDict(probe.result)
        /\ DOMAIN probe.result.v = {"web3_analysis", "category", "recommendation"}
        /\ IsText(probe.result.v["web3_analysis"], probe.text)
        /\ IsText(probe.result.v["category"], FirstOccurring(probe.text, 1))
        /\ IsText(probe.result.v["recommendation"], RefRecommendation(probe.text))

\* a text with both a Go and a No-Go keyword, and with NFT ahead of DeFi,
\* classified as Go and DeFi
C12_Witness ==
    /\ probe.op = "classify"
    /\ probe.done
    /\ OccursIn(<<"a", "v", "o", "i", "d">>, probe.text)
    /\ OccursIn(<<"s", "t", "r", "o", "n", "g", " ", "b", "u", "y">>, probe.text)
    /\ IsText(probe.result.v["recommendation"], <<"Go">>)

\* a text naming NFT ahead of DeFi, classified as DeFi
C12_WitnessCategory ==
    /\ probe.op = "classify"
    /\ probe.done
    /\ probe.text = <<"n", "f", "t", "D", "e", "F", "i">>
    /\ IsText(probe.result.v["category"], <<"D", "e", "F", "i">>)

----------------------------------------------------------------------------
(* C13 *)

\* the Complete update returned and the run went on to the notification
CompleteCommitted(r) ==
    /\ Len(r.updates) >= 2
    /\ ~r.updates[1].raised
    /\ ~r.updates[2].raised
    /\ IsText(r.updates[2].fields["Diligence Status"], <<"Complete">>)

\* C13: send_diligence_report never raises, so once the Complete update is
\* committed the run issues no further update and the record stays Complete,
\* whether the notification is delivered or not.
C13_NotificationKeepsStatus ==
    \A id \in ExternalIds :
        LET r == run[id] IN
        CompleteCommitted(r) =>
            /\ Len(r.updates) = 2
            /\ ~TookHandler(r)
            /\ r.exc # "send_diligence_report"
            /\ StatusIs(id, "Complete")
            /\ Called(r, "send_diligence_report") =>
                    (Done(id) /\ r.result = "returned" /\ r.log[Len(r.log)].call = "send_diligence_report")

\* the notification failed and the record is still Complete
C13_Witness ==
    \E id \in ExternalIds :
        /\ Done(id)
        /\ Called(run[id], "send_diligence_report")
        /\ OutcomeOf(run[id], "send_diligence_report") = "failed"
        /\ StatusIs(id, "Complete")

----------------------------------------------------------------------------
(* C14 *)

Processing(id) ==
    [message |-> <<"Research started for ">> \o CompanyName(id), external_id |-> id, status |-> "processing"]

\* C14: the trigger is fire-and-forget.  A request schedules one background
\* run and is answered with {message, external_id, status: "processing"}
\* before the run has taken a step; the answer stays the same whatever the
\* run does afterwards, and the run reports no failure back.
C14_FireAndForget ==
    [][\A id \in ExternalIds :
          /\ run[id].pc = "idle" => run[id].response = NoResponse
          /\ (run[id].pc = "idle" /\ run'[id].pc # "idle") =>
                  /\ run'[id].pc = "scheduled"
                  /\ run'[id].log = <<>>
                  /\ run'[id].updates = <<>>
                  /\ store' = store
          /\ run[id].pc # "idle" => run'[id].pc # "idle"
          /\ run'[id].pc # "idle" => run'[id].response = Processing(id)
          /\ run'[id].result # "raised"]_vars

\* the run ended in Failed and the answer given was still "processing"
C14_Witness ==
    \E id \in ExternalIds :
        /\ Done(id)
        /\ TookHandler(run[id])
        /\ StatusIs(id, "Failed")
        /\ run[id].response = Processing(id)

----------------------------------------------------------------------------
(* C15 *)

\* the rows as the updates of one run leave them
RECURSIVE OwnUpdates(_, _)
OwnUpdates(st, updates) ==
    IF updates = <<>> THEN st
    ELSE OwnUpdates(IF Head(updates).row = NoRecord THEN st
                    ELSE Patched(st, Head(updates).row, Head(updates).fields),
                    Tail(updates))

\* C15: runs for distinct external ids do not interfere.  Under every
\* interleaving a step of one run leaves the other run and the other run's
\* records alone, every update lands on a record of the run's own external
\* id, and each record is what its own run's updates alone make of it.
C15_RunsDoNotInterfere ==
    [][/\ \A id \in ExternalIds :
            run'[id] # run[id] =>
                /\ \A other \in ExternalIds \ {id} : run'[other] = run[other]
                /\ \A row \in RowIds : store'[row] # store[row] => ExternalIdOf(row) = id
       /\ \A id \in ExternalIds : \A i \in 1..Len(run'[id].updates) :
            run'[id].updates[i].row # NoRecord => ExternalIdOf(run'[id].updates[i].row) = id
       /\ \A row \in RowIds :
            store'[row] = OwnUpdates([w \in RowIds |-> InitialRecord(w)],
                                     run'[ExternalIdOf(row)].updates)[row]]_vars

\* one run ended Complete and the other Failed, their updates interleaved
C15_Witness ==
    /\ Done("X1") /\ Done("X2")
    /\ StatusIs("X1", "Complete")
    /\ StatusIs("X2", "Failed")
    /\ run["X2"].updates[1].row # NoRecord
    /\ Len(run["X2"].updates) = 2

----------------------------------------------------------------------------
(* C16 *)

\* the fields the orchestrator's three updates name
WrittenFields == {"Stage", "Diligence Status", "AI Recommendation", "Last Updated"}

\* what update_record answers does not depend on what the records hold
\* beyond their External ID
AnswerIgnoresContents(st) ==
    \A id \in ExternalIds, lookup \in LookupOutcomes, patch \in PatchOutcomes :
        LET now == update_record(st, id, InProgressFields, lookup, patch)
            first == update_record([row \in RowIds |-> InitialRecord(row)], id,
                                   InProgressFields, lookup, patch)
        IN  now.raised = first.raised /\ now.row = first.row

\* C16: the run touches the record store only through partial-field updates.
\* Every step keeps each record's set of fields and every field outside
\* Stage, Diligence Status, AI Recommendation and Last Updated; the In
\* Progress update also keeps AI Recommendation; and the run reads nothing
\* back: what update_record answers to it does not depend on the contents of
\* the record.
C16_PartialUpdatesOnly ==
    [][/\ \A row \in RowIds :
            /\ DOMAIN store'[row] = DOMAIN store[row]
            /\ \A f \in DOMAIN store[row] \ WrittenFields : store'[row][f] = store[row][f]
       /\ \A id \in ExternalIds :
            (run[id].pc = "scheduled" /\ run'[id].pc # "scheduled") =>
                \A row \in RowIds :
                    store'[row]["AI Recommendation"] = store[row]["AI Recommendation"]
       /\ AnswerIgnoresContents(store')]_vars

\* both updates were applied and the field they never name is as it was
C16_Witness ==
    \E id \in ExternalIds :
        /\ Done(id)
        /\ StatusIs(id, "Complete")
        /\ IsText(RecordOf(id)["Stage"], <<"Partner Review">>)
        /\ IsText(RecordOf(id)["Partner Decision"], <<"Undecided">>)
        /\ IsText(RecordOf(id)["External ID"], <<id>>)

----------------------------------------------------------------------------
(* update_record on its own: a bounded sequence of updates on the table *)

MaxUpdates == 2

\* X9 is an external id that no record carries
ProbedIds == ExternalIds \cup {"X9"}

ProbedFields == {InProgressFields, FailedFields}

InitStore ==
    /\ active = {}
    /\ run = [id \in ExternalIds |-> IdleRun]
    /\ store = [row \in RowIds |-> InitialRecord(row)]
    /\ probe = [op |-> "update", count |-> 0, before |-> store, external_id |-> "X9",
                fields |-> InProgressFields, lookup |-> "ok", patch |-> "ok",
                found |-> NoRecord, raised |-> FALSE, row |-> NoRecord]

\* one call of airtable_client.update_record
StoreUpdate ==
    /\ probe.op = "update"
    /\ probe.count < MaxUpdates
    /\ \E external_id \in ProbedIds, fields \in ProbedFields,
          lookup \in LookupOutcomes, patch \in PatchOutcomes :
         LET u == update_record(store, external_id, fields, lookup, patch)
         IN  /\ store' = u.store
             /\ probe' = [op |-> "update", count |-> probe.count + 1, before |-> store,
                          external_id |-> external_id, fields |-> fields,
                          lookup |-> lookup, patch |-> patch,
                          found |-> get_record_by_external_id(store, external_id, lookup),
                          raised |-> u.raised, row |-> u.row]
    /\ UNCHANGED <<active, run>>

NextStore == StoreUpdate

SpecStore == InitStore /\ [][NextStore]_vars

----------------------------------------------------------------------------
(* C17 *)

\* the rows whose External ID is the one asked for, in listing order
Matching(st, external_id) ==
    {i \in 1..Len(Rows) : IsText(st[Rows[i]]["External ID"], <<external_id>>)}

\* C17: update_record resolves the id by lookup before it patches.  When the
\* lookup fails or matches nothing the lookup answers None without raising,
\* update_record raises and the store is unchanged; when it matches several
\* records only the first of them is patched, with the named fields only.
C17_LookupThenPatch ==
    (probe.op = "update" /\ probe.count > 0) =>
        LET hits == Matching(probe.before, probe.external_id) IN
        /\ probe.found \in RowIds \cup {NoRecord}
        /\ (probe.lookup = "error" \/ hits = {}) =>
                /\ probe.found = NoRecord
                /\ probe.raised
                /\ store = probe.before
        /\ (probe.lookup = "ok" /\ hits # {}) =>
                LET first == Rows[CHOOSE i \in hits : \A j \in hits : i <= j] IN
                /\ probe.found = first
                /\ \A row \in RowIds \ {first} : store[row] = probe.before[row]
                /\ probe.patch = "error" => (probe.raised /\ store = probe.before)
                /\ probe.patch # "error" =>
                        /\ \A f \in DOMAIN probe.fields : store[first][f] = probe.fields[f]
                        /\ \A f \in DOMAIN probe.before[first] \ DOMAIN probe.fields :
                                store[first][f] = probe.before[first][f]
                        /\ probe.raised = (probe.patch = "unreadable")

\* two records carry X1: the first was patched and the second was not
C17_Witness ==
    /\ probe.op = "update"
    /\ probe.count > 0
    /\ probe.external_id = "X1"
    /\ Cardinality(Matching(probe.before, "X1")) = 2
    /\ ~probe.raised
    /\ store["rec1"] # probe.before["rec1"]
    /\ store["rec3"] = probe.before["rec3"]

\* the id matched nothing: update_record raised and the store is as it was
C17_WitnessNotFound ==
    /\ probe.op = "update"
    /\ probe.count = MaxUpdates
    /\ probe.external_id = "X9"
    /\ probe.lookup = "ok"
    /\ probe.raised
    /\ store = probe.before
    /\ store # [row \in RowIds |-> InitialRecord(row)]

----------------------------------------------------------------------------
(* C18 *)

\* the Complete update of r, once issued
CompleteUpdate(r) == r.updates[2]

IssuedComplete(r) ==
    /\ Len(r.updates) >= 2
    /\ ~r.updates[1].raised
    /\ IsText(r.updates[2].fields["Diligence Status"], <<"Complete">>)

\* C18 as stated: whenever a run commits the Complete update, the AI
\* Recommendation it writes is a non-blank string equal to the report's
\* investment_recommendation, whatever the structured-findings call answered.
C18_RecommendationNeverBlank ==
    \A id \in ExternalIds :
        LET r == run[id] IN
        (IssuedComplete(r) /\ ~CompleteUpdate(r).raised) =>
            LET written == CompleteUpdate(r).fields["AI Recommendation"] IN
            /\ written = Get(r.report, "investment_recommendation", Null)
            /\ IsStr(written)
            /\ written.v # <<>>

====
